---- MODULE Spec2Model ----
(***************************************************************************)
(* State-machine model of srunner/scenariomanager/carla_data_provider.py:  *)
(* the CarlaDataProvider state cache (velocity / location / transform      *)
(* buffers, traffic-light registry, world and map binding) and the         *)
(* CarlaActorPool (actor pool, spawn-point allocator, batched spawning).   *)
(* The CARLA simulator is the environment: its actors, their kinematics,   *)
(* the traffic lights and the responses to spawn commands are chosen       *)
(* nondeterministically from small sets.                                   *)
(***************************************************************************)
EXTENDS Integers, Sequences, FiniteSets, TLC

VARIABLES
    \* CarlaDataProvider class attributes (lines 51-58)
    actor_velocity_map, actor_location_map, actor_transform_map,
    traffic_light_map, dp_map, dp_world, sync_flag, ego_vehicle_route,
    \* CarlaActorPool class attributes (lines 431-435)
    pool_client, pool_world, carla_actor_pool, spawn_points, spawn_index,
    \* the simulator: actors registered with the cache
    simAlive, simSample,
    \* the simulator: traffic lights (heading, state, the three durations)
    tlYaw, tlState, tlGreen, tlRed, tlYellow,
    \* the simulator: actors spawned through the pool, the number of destroy
    \* calls each has received, and the frame counter
    simActors, simDestroyed, simFrame,
    \* the record list returned by the last update_light_states and the
    \* light values read just before that call
    reset_params, tlBefore,
    \* the last operation, its argument, the value it returned and the
    \* exception it raised ("none" when it returned normally)
    last

vars == << actor_velocity_map, actor_location_map, actor_transform_map,
           traffic_light_map, dp_map, dp_world, sync_flag, ego_vehicle_route,
           pool_client, pool_world, carla_actor_pool, spawn_points, spawn_index,
           simAlive, simSample, tlYaw, tlState, tlGreen, tlRed, tlYellow,
           simActors, simDestroyed, simFrame, reset_params, tlBefore, last >>

cacheVars == << actor_velocity_map, actor_location_map, actor_transform_map >>
bindVars  == << dp_map, dp_world, sync_flag, ego_vehicle_route >>
poolVars  == << pool_client, pool_world, carla_actor_pool, spawn_points, spawn_index >>
simCacheVars == << simAlive, simSample >>
lightVars == << tlYaw, tlState, tlGreen, tlRed, tlYellow, reset_params, tlBefore >>
simPoolVars == << simActors, simDestroyed, simFrame >>

----------------------------------------------------------------------------
(* Bounds of the model *)

NumActors == 2          \* actor identities known to the state cache
MaxList == 2            \* longest list handed to register_actors
NumLights == 2          \* traffic-light identities of a world

Actors == 1..NumActors
Samples == {1, 2}       \* two different kinematic readings of an actor
Worlds == {1, 2}        \* two simulator worlds; world 1 runs synchronously
Lights == 1..NumLights

\* Python's None; every optional value of the model is a record
None == [none |-> TRUE]

World(w) == [world |-> w]
MapOf(w) == [map_of |-> w]
WorldSync(w) == (w = 1)

\* a normal return with value v / an exception of kind e
Returned(op, arg, v) == [op |-> op, arg |-> arg, ret |-> v, exc |-> "none"]
Raised(op, arg, e) == [op |-> op, arg |-> arg, ret |-> None, exc |-> e]

----------------------------------------------------------------------------
(* What the simulator reports for an actor *)

SimVelocity(actor) == [x |-> 3 * simSample[actor], y |-> 4 * simSample[actor],
                       z |-> 7]
SimLocation(actor) == [x |-> 10 * simSample[actor], y |-> actor, z |-> 0]
SimTransform(actor) == [location |-> SimLocation(actor),
                        yaw |-> 90 * simSample[actor]]

\* math.sqrt on the perfect squares the model uses
Sqrt(n) == CHOOSE r \in 0..n : r * r <= n /\ (r + 1) * (r + 1) > n

calculate_velocity(actor) ==
    LET velocity_squared == SimVelocity(actor).x * SimVelocity(actor).x
                            + SimVelocity(actor).y * SimVelocity(actor).y
    IN  Sqrt(velocity_squared)

----------------------------------------------------------------------------
(* CarlaDataProvider: registration, tick refresh, telemetry getters *)

\* the three buffers as one value, so register_actors can thread them
Buffers == [v |-> actor_velocity_map, l |-> actor_location_map,
            t |-> actor_transform_map]

Put(f, k, val) == [x \in (DOMAIN f) \cup {k} |-> IF x = k THEN val ELSE f[x]]

\* register_actor without the membership tests: a second registration
\* silently resets the entry
register_actor_overwrite(b, actor) ==
    [b |-> [v |-> Put(b.v, actor, 0), l |-> Put(b.l, actor, None),
            t |-> Put(b.t, actor, None)],
     exc |-> "none"]

\* register_actor testing only the last buffer, after the first two inserts
register_actor_late_check(b, actor) ==
    LET b2 == [b EXCEPT !.v = Put(b.v, actor, 0), !.l = Put(b.l, actor, None)] IN
    IF actor \in DOMAIN b.t
    THEN [b |-> b2, exc |-> "KeyError"]
    ELSE [b |-> [b2 EXCEPT !.t = Put(b2.t, actor, None)], exc |-> "none"]

\* register_actor on buffers b: the three check-then-insert steps in order
register_actor(b, actor) ==
    IF actor \in DOMAIN b.v
    THEN [b |-> b, exc |-> "KeyError"]
    ELSE LET b1 == [b EXCEPT !.v = Put(b.v, actor, 0)] IN
         IF actor \in DOMAIN b1.l
         THEN [b |-> b1, exc |-> "KeyError"]
         ELSE LET b2 == [b1 EXCEPT !.l = Put(b1.l, actor, None)] IN
              IF actor \in DOMAIN b2.t
              THEN [b |-> b2, exc |-> "KeyError"]
              ELSE [b |-> [b2 EXCEPT !.t = Put(b2.t, actor, None)],
                    exc |-> "none"]

\* register_actors going on with the rest of the list after a duplicate
RECURSIVE register_actors_continue(_, _)
register_actors_continue(b, actors) ==
    IF actors = << >>
    THEN [b |-> b, exc |-> "none"]
    ELSE LET r == register_actor(b, Head(actors))
             rest == register_actors_continue(r.b, Tail(actors))
         IN  IF r.exc # "none" THEN [b |-> rest.b, exc |-> r.exc] ELSE rest

RECURSIVE register_actors(_, _)
register_actors(b, actors) ==
    IF actors = << >>
    THEN [b |-> b, exc |-> "none"]
    ELSE LET r == register_actor(b, Head(actors)) IN
         IF r.exc # "none" THEN r ELSE register_actors(r.b, Tail(actors))

SetBuffers(b) ==
    /\ actor_velocity_map' = b.v
    /\ actor_location_map' = b.l
    /\ actor_transform_map' = b.t

RegisterActor(actor) ==
    LET r == register_actor(Buffers, actor) IN
    /\ SetBuffers(r.b)
    /\ last' = IF r.exc = "none" THEN Returned("register_actor", actor, None)
               ELSE Raised("register_actor", actor, r.exc)
    /\ UNCHANGED << traffic_light_map, bindVars, poolVars, simCacheVars,
                    lightVars, simPoolVars >>

ActorLists == UNION { [1..n -> Actors] : n \in 0..MaxList }

RegisterActors(actors) ==
    LET r == register_actors(Buffers, actors) IN
    /\ SetBuffers(r.b)
    /\ last' = IF r.exc = "none" THEN Returned("register_actors", actors, None)
               ELSE Raised("register_actors", actors, r.exc)
    /\ UNCHANGED << traffic_light_map, bindVars, poolVars, simCacheVars,
                    lightVars, simPoolVars >>

\* on_carla_tick refreshing the location without the is_alive test
on_carla_tick_no_alive_test(b) ==
    [v |-> [actor \in DOMAIN b.v |->
               IF simAlive[actor] THEN calculate_velocity(actor) ELSE b.v[actor]],
     l |-> [actor \in DOMAIN b.l |-> SimLocation(actor)],
     t |-> [actor \in DOMAIN b.t |->
               IF simAlive[actor] THEN SimTransform(actor) ELSE b.t[actor]]]

\* on_carla_tick: three loops, each over the keys of one buffer
on_carla_tick(b) ==
    [v |-> [actor \in DOMAIN b.v |->
               IF simAlive[actor] THEN calculate_velocity(actor) ELSE b.v[actor]],
     l |-> [actor \in DOMAIN b.l |->
               IF simAlive[actor] THEN SimLocation(actor) ELSE b.l[actor]],
     t |-> [actor \in DOMAIN b.t |->
               IF simAlive[actor] THEN SimTransform(actor) ELSE b.t[actor]]]

OnCarlaTick ==
    /\ SetBuffers(on_carla_tick(Buffers))
    /\ last' = Returned("on_carla_tick", None, None)
    /\ UNCHANGED << traffic_light_map, bindVars, poolVars, simCacheVars,
                    lightVars, simPoolVars >>

\* the getters scan the keys for one whose id equals the actor's id
get_velocity(actor) ==
    IF \E key \in DOMAIN actor_velocity_map : key = actor
    THEN [ret |-> actor_velocity_map[actor], exc |-> "none"]
    ELSE [ret |-> 0, exc |-> "none"]

\* get_location indexing the buffer directly
get_location_indexing(actor) ==
    IF actor \in DOMAIN actor_location_map
    THEN [ret |-> actor_location_map[actor], exc |-> "none"]
    ELSE [ret |-> None, exc |-> "KeyError"]

get_location(actor) ==
    IF \E key \in DOMAIN actor_location_map : key = actor
    THEN [ret |-> actor_location_map[actor], exc |-> "none"]
    ELSE [ret |-> None, exc |-> "none"]

get_transform(actor) ==
    IF \E key \in DOMAIN actor_transform_map : key = actor
    THEN [ret |-> actor_transform_map[actor], exc |-> "none"]
    ELSE [ret |-> None, exc |-> "none"]

\* a getter that refreshes the location it serves from the simulator
GetterRefreshing(op, actor, r) ==
    /\ last' = [op |-> op, arg |-> actor, ret |-> r.ret, exc |-> r.exc]
    /\ actor_location_map' =
          [a \in DOMAIN actor_location_map |->
              IF a = actor THEN SimLocation(a) ELSE actor_location_map[a]]
    /\ UNCHANGED << actor_velocity_map, actor_transform_map, traffic_light_map,
                    bindVars, poolVars, simCacheVars, lightVars, simPoolVars >>

Getter(op, actor, r) ==
    /\ last' = [op |-> op, arg |-> actor, ret |-> r.ret, exc |-> r.exc]
    /\ UNCHANGED << cacheVars, traffic_light_map, bindVars, poolVars,
                    simCacheVars, lightVars, simPoolVars >>

GetVelocity(actor) == Getter("get_velocity", actor, get_velocity(actor))
GetLocation(actor) == Getter("get_location", actor, get_location(actor))
GetTransform(actor) == Getter("get_transform", actor, get_transform(actor))

----------------------------------------------------------------------------
(* CarlaDataProvider: world and map binding, traffic-light registry *)

\* the transform a traffic light of world w reports
TlTransform(w, light) == [location |-> [x |-> 100 * w + light, y |-> 0, z |-> 0],
                         yaw |-> tlYaw[light]]

MaxScan == 3            \* longest actor list a world scan returns
Scans == UNION { [1..n -> Lights] : n \in 0..MaxScan }

\* the loop of prepare_map over the scanned lights, from registry reg
RECURSIVE parse_traffic_lights(_, _, _)
parse_traffic_lights(reg, w, scan) ==
    IF scan = << >>
    THEN [reg |-> reg, exc |-> "none"]
    ELSE IF Head(scan) \notin DOMAIN reg
         THEN parse_traffic_lights(Put(reg, Head(scan), TlTransform(w, Head(scan))),
                                   w, Tail(scan))
         ELSE [reg |-> reg, exc |-> "KeyError"]

EmptyMap == [x \in {} |-> None]

\* prepare_map, with scan the list world.get_actors().filter(...) returns
prepare_map(scan) ==
    IF dp_map = None /\ dp_world = None
    THEN [map |-> dp_map, reg |-> traffic_light_map, exc |-> "AttributeError"]
    ELSE LET m == IF dp_map = None THEN MapOf(dp_world.world) ELSE dp_map IN
         IF dp_world = None
         THEN [map |-> m, reg |-> EmptyMap, exc |-> "AttributeError"]
         ELSE LET r == parse_traffic_lights(EmptyMap, dp_world.world, scan) IN
              [map |-> m, reg |-> r.reg, exc |-> r.exc]

PrepareMap(scan) ==
    LET r == prepare_map(scan) IN
    /\ dp_map' = r.map
    /\ traffic_light_map' = r.reg
    /\ last' = IF r.exc = "none" THEN Returned("prepare_map", scan, None)
               ELSE Raised("prepare_map", scan, r.exc)
    /\ UNCHANGED << cacheVars, dp_world, sync_flag, ego_vehicle_route, poolVars,
                    simCacheVars, lightVars, simPoolVars >>

\* CarlaDataProvider.set_world
SetWorld(w) ==
    /\ dp_world' = World(w)
    /\ sync_flag' = WorldSync(w)
    /\ dp_map' = MapOf(w)
    /\ last' = Returned("set_world", w, None)
    /\ UNCHANGED << cacheVars, traffic_light_map, ego_vehicle_route, poolVars,
                    simCacheVars, lightVars, simPoolVars >>

\* CarlaDataProvider.get_map(world), world being None or a world
get_map(world) ==
    IF dp_map = None
    THEN IF world = None
         THEN IF dp_world = None
              THEN [map |-> dp_map, ret |-> None, exc |-> "ValueError"]
              ELSE [map |-> MapOf(dp_world.world), ret |-> MapOf(dp_world.world),
                    exc |-> "none"]
         ELSE [map |-> MapOf(world.world), ret |-> MapOf(world.world),
               exc |-> "none"]
    ELSE [map |-> dp_map, ret |-> dp_map, exc |-> "none"]

GetMap(world) ==
    LET r == get_map(world) IN
    /\ dp_map' = r.map
    /\ last' = [op |-> "get_map", arg |-> world, ret |-> r.ret, exc |-> r.exc]
    /\ UNCHANGED << cacheVars, traffic_light_map, dp_world, sync_flag,
                    ego_vehicle_route, poolVars, simCacheVars, lightVars,
                    simPoolVars >>

Routes == {[route |-> 1], [route |-> 2]}

SetEgoVehicleRoute(route) ==
    /\ ego_vehicle_route' = route
    /\ last' = Returned("set_ego_vehicle_route", route, None)
    /\ UNCHANGED << cacheVars, traffic_light_map, dp_map, dp_world, sync_flag,
                    poolVars, simCacheVars, lightVars, simPoolVars >>

GetEgoVehicleRoute ==
    /\ last' = Returned("get_ego_vehicle_route", None, ego_vehicle_route)
    /\ UNCHANGED << cacheVars, traffic_light_map, bindVars, poolVars,
                    simCacheVars, lightVars, simPoolVars >>

\* CarlaDataProvider.cleanup forgetting the transform buffer
dp_cleanup_keeps_transforms ==
    /\ actor_velocity_map' = EmptyMap
    /\ actor_location_map' = EmptyMap
    /\ actor_transform_map' = actor_transform_map
    /\ traffic_light_map' = EmptyMap
    /\ dp_map' = None
    /\ dp_world' = None
    /\ sync_flag' = FALSE
    /\ ego_vehicle_route' = None

\* CarlaDataProvider.cleanup
dp_cleanup ==
    /\ actor_velocity_map' = EmptyMap
    /\ actor_location_map' = EmptyMap
    /\ actor_transform_map' = EmptyMap
    /\ traffic_light_map' = EmptyMap
    /\ dp_map' = None
    /\ dp_world' = None
    /\ sync_flag' = FALSE
    /\ ego_vehicle_route' = None

DataProviderCleanup ==
    /\ dp_cleanup
    /\ last' = Returned("CarlaDataProvider.cleanup", DOMAIN actor_velocity_map,
                        None)
    /\ UNCHANGED << poolVars, simCacheVars, lightVars, simPoolVars >>

\* the simulator moves an actor: its next reading differs
SimMove(actor) ==
    /\ simAlive[actor]
    /\ \E s \in Samples \ {simSample[actor]} :
          simSample' = [simSample EXCEPT ![actor] = s]
    /\ last' = Returned("sim_move", actor, None)
    /\ UNCHANGED << cacheVars, traffic_light_map, bindVars, poolVars, simAlive,
                    lightVars, simPoolVars >>

\* an actor dies in the simulator (it never revives)
SimDie(actor) ==
    /\ simAlive[actor]
    /\ simAlive' = [simAlive EXCEPT ![actor] = FALSE]
    /\ last' = Returned("sim_die", actor, None)
    /\ UNCHANGED << cacheVars, traffic_light_map, bindVars, poolVars, simSample,
                    lightVars, simPoolVars >>

----------------------------------------------------------------------------
(* CarlaDataProvider: traffic-light groups, override and restore *)

LightStates == {"Red", "Yellow", "Green"}
Yaws == {0, 180, -90}           \* headings the lights of the model take
Timeout == 1000000000           \* default timeout of update_light_states

\* get_group_traffic_lights: the lights of the world form one group
group_tl == [i \in 1..NumLights |-> i]

\* the heading difference after the single wrap of lines 219-221
wrap_diff(ref_yaw, target_yaw) ==
    LET diff == target_yaw - ref_yaw
    IN  IF diff < 0 THEN 360 + diff ELSE diff

\* the bucket chosen without wrapping a negative difference
bucket_of_no_wrap(ref_yaw, target_yaw) ==
    LET diff == target_yaw - ref_yaw
    IN  IF diff <= 45 \/ diff > 340 THEN "ref"
        ELSE IF diff > 240 /\ diff < 300 THEN "left"
        ELSE IF diff > 160 /\ diff <= 240 THEN "opposite"
        ELSE "right"

\* the bucket annotate_trafficlight_in_group puts target_tl in
bucket_of(ref_yaw, target_yaw) ==
    LET diff == wrap_diff(ref_yaw, target_yaw)
    IN  IF diff <= 45 \/ diff > 340 THEN "ref"
        ELSE IF diff > 240 /\ diff < 300 THEN "left"
        ELSE IF diff > 160 /\ diff <= 240 THEN "opposite"
        ELSE "right"

annotate_trafficlight_in_group(traffic_light) ==
    [b \in {"ref", "opposite", "left", "right"} |->
        SelectSeq(group_tl,
                  LAMBDA target_tl :
                      bucket_of(tlYaw[traffic_light], tlYaw[target_tl]) = b)]

AnnotateTrafficLightInGroup(traffic_light) ==
    /\ last' = Returned("annotate_trafficlight_in_group", traffic_light,
                        annotate_trafficlight_in_group(traffic_light))
    /\ UNCHANGED << cacheVars, traffic_light_map, bindVars, poolVars,
                    simCacheVars, lightVars, simPoolVars >>

\* a heading wrapped into the range [-180, 180)
WrapHeading(yaw) == ((yaw + 180) % 360) - 180

\* the junction seen in a frame turned by c degrees: every light reports
\* its heading shifted by c
RotateHeadings(c) ==
    /\ tlYaw' = [l \in Lights |-> WrapHeading(tlYaw[l] + c)]
    /\ last' = Returned("rotate_headings", c, None)
    /\ UNCHANGED << cacheVars, traffic_light_map, bindVars, poolVars,
                    simCacheVars, tlState, tlGreen, tlRed, tlYellow,
                    reset_params, tlBefore, simPoolVars >>

\* the state and durations of every light, as one value
LightValues == [state |-> tlState, green |-> tlGreen, red |-> tlRed,
                yellow |-> tlYellow]

\* one override: snapshot the light into a record, set the state, and pin
\* the three durations when freeze is set
override(acc, light, state, freeze) ==
    LET L == acc.L
        rec == [light |-> light, state |-> L.state[light],
                green_time |-> L.green[light], red_time |-> L.red[light],
                yellow_time |-> L.yellow[light]]
    IN  [L |-> [state |-> [L.state EXCEPT ![light] = state],
                green |-> IF freeze THEN [L.green EXCEPT ![light] = Timeout]
                          ELSE L.green,
                red |-> IF freeze THEN [L.red EXCEPT ![light] = Timeout]
                        ELSE L.red,
                yellow |-> IF freeze THEN [L.yellow EXCEPT ![light] = Timeout]
                           ELSE L.yellow],
         recs |-> Append(acc.recs, rec)]

RECURSIVE override_all(_, _, _, _)
override_all(acc, lights, state, freeze) ==
    IF lights = << >> THEN acc
    ELSE override_all(override(acc, Head(lights), state, freeze),
                      Tail(lights), state, freeze)

\* the override of one key of states, when present
override_key(acc, key, lights, states, freeze) ==
    IF key \in DOMAIN states
    THEN override_all(acc, lights, states[key], freeze)
    ELSE acc

\* update_light_states: ego, ref, left, right, opposite, in this order
update_light_states(L, ego_light, annotations, states, freeze) ==
    LET a0 == [L |-> L, recs |-> << >>]
        a1 == override_key(a0, "ego", << ego_light >>, states, freeze)
        a2 == override_key(a1, "ref", annotations["ref"], states, freeze)
        a3 == override_key(a2, "left", annotations["left"], states, freeze)
        a4 == override_key(a3, "right", annotations["right"], states, freeze)
    IN  override_key(a4, "opposite", annotations["opposite"], states, freeze)

\* reset_lights: replay the records in list order
RECURSIVE reset_lights(_, _)
reset_lights(L, params) ==
    IF params = << >> THEN L
    ELSE LET param == Head(params) IN
         reset_lights([state |-> [L.state EXCEPT ![param.light] = param.state],
                       green |-> [L.green EXCEPT ![param.light] = param.green_time],
                       red |-> [L.red EXCEPT ![param.light] = param.red_time],
                       yellow |-> [L.yellow EXCEPT ![param.light] = param.yellow_time]],
                      Tail(params))

SetLightValues(L) ==
    /\ tlState' = L.state
    /\ tlGreen' = L.green
    /\ tlRed' = L.red
    /\ tlYellow' = L.yellow

StateKeys == {"ego", "ref", "left", "right", "opposite"}
DesiredStates == UNION { [K -> LightStates] : K \in (SUBSET StateKeys) \ {{}} }

\* a caller annotates the group of a light and overrides it (one override
\* and restore per behaviour; the initial states range over the light values)
UpdateLightStates(ego_light, states, freeze) ==
    LET r == update_light_states(LightValues, ego_light,
                                 annotate_trafficlight_in_group(ego_light),
                                 states, freeze)
    IN  /\ tlBefore = None
        /\ SetLightValues(r.L)
        /\ reset_params' = r.recs
        /\ tlBefore' = LightValues
        /\ last' = Returned("update_light_states",
                            [ego |-> ego_light, keys |-> DOMAIN states,
                             freeze |-> freeze], None)
        /\ UNCHANGED << cacheVars, traffic_light_map, bindVars, poolVars,
                        simCacheVars, tlYaw, simPoolVars >>

\* the caller hands the returned records to reset_lights
ResetLights ==
    /\ last.op = "update_light_states"
    /\ SetLightValues(reset_lights(LightValues, reset_params))
    /\ last' = [last EXCEPT !.op = "reset_lights"]
    /\ UNCHANGED << cacheVars, traffic_light_map, bindVars, poolVars,
                    simCacheVars, tlYaw, reset_params, tlBefore, simPoolVars >>

----------------------------------------------------------------------------
(* CarlaActorPool: binding, spawn-point allocator, single-actor requests,  *)
(* removal and cleanup.  A pose is its position x on a line; distance is   *)
(* the absolute difference.                                                *)

MaxSpawn == 3           \* actors the simulator creates in one behaviour
MaxFrame == 2           \* frames the simulator advances in one behaviour
MaxAmount == 2          \* largest amount asked of setup_batch_actors

ActorIds == 1..MaxSpawn
NextId == Cardinality(DOMAIN simActors) + 1

\* map.get_spawn_points() of the map of world w
MapSpawnPoints(w) == IF w = 1 THEN << 0, 8 >> ELSE << 0, 5, 8 >>
\* world.get_random_location_from_navigation() yields one of these, or None
NavPoints == {3}

Range(f) == { f[i] : i \in DOMAIN f }
Shuffles(points) ==
    { p \in [DOMAIN points -> Range(points)] : Range(p) = Range(points) }

\* a pose (carla.Transform) at position x
Pose(x) == [x |-> x]

Distance(a, b) == IF a >= b THEN a - b ELSE b - a

Remove(f, K) == [x \in (DOMAIN f) \ K |-> f[x]]

Handle(id) == [id |-> id]

\* CarlaActorPool.set_client
PoolSetClient ==
    /\ pool_client' = [client |-> 1]
    /\ last' = Returned("set_client", None, None)
    /\ UNCHANGED << cacheVars, traffic_light_map, bindVars, pool_world,
                    carla_actor_pool, spawn_points, spawn_index, simCacheVars,
                    lightVars, simPoolVars >>

\* CarlaActorPool.set_world, which runs generate_spawn_points: the spawn
\* points of the map CarlaDataProvider.get_map(world) returns, shuffled
PoolSetWorld(w) ==
    LET r == get_map(World(w)) IN
    /\ pool_world' = World(w)
    /\ dp_map' = r.map
    /\ \E shuffled \in Shuffles(MapSpawnPoints(r.ret.map_of)) :
          spawn_points' = [points |-> shuffled]
    /\ spawn_index' = 0
    /\ last' = Returned("CarlaActorPool.set_world", w, None)
    /\ UNCHANGED << cacheVars, traffic_light_map, dp_world, sync_flag,
                    ego_vehicle_route, pool_client, carla_actor_pool,
                    simCacheVars, lightVars, simPoolVars >>

Models == {"vehicle", "walker", "unknown"}
Categories == {"car", "None"}

\* setup_actor up to the spawn: spawned tells whether try_spawn_actor
\* yielded an actor (with random_location: whether the retry loop ended),
\* at is the position of the pose finally tried
setup_actor(model, spawn_point, rolename, autopilot, random_location, vehicle_category, spawned, at) ==
    IF pool_world = None THEN [exc |-> "AttributeError", actor |-> None]
    ELSE IF model = "unknown" /\ vehicle_category = "None"
    THEN [exc |-> "KeyError", actor |-> None]
    ELSE IF random_location /\ spawn_points = None
    THEN [exc |-> "TypeError", actor |-> None]
    ELSE IF ~spawned
    THEN [exc |-> "RuntimeError", actor |-> None]
    ELSE [exc |-> "none",
          actor |-> [type_id |-> IF model = "walker" THEN "walker" ELSE "vehicle",
                     role_name |-> IF autopilot THEN "autopilot" ELSE rolename,
                     x |-> IF random_location THEN at ELSE spawn_point.x]]

\* the simulator creates actor a under the next identity
Spawn(actors, a) == Put(actors, Cardinality(DOMAIN actors) + 1, a)

\* request_new_actor: setup_actor, then the pool insertion
RequestNewActor(model, spawn_point, rolename, autopilot, random_location, vehicle_category) ==
    \E spawned \in (IF NextId <= MaxSpawn /\ simFrame < MaxFrame
                     THEN BOOLEAN ELSE {FALSE}),
       at \in (IF random_location /\ spawn_points # None
               THEN Range(spawn_points.points) ELSE {spawn_point.x}) :
      LET r == setup_actor(model, spawn_point, rolename, autopilot,
                           random_location, vehicle_category, spawned, at)
          arg == [model |-> model, random_location |-> random_location]
      IN
      \* with random_location the spawn is retried until it succeeds
      /\ (random_location /\ r.exc = "RuntimeError") => FALSE
      /\ IF r.exc # "none"
         THEN /\ last' = Raised("request_new_actor", arg, r.exc)
              /\ UNCHANGED << carla_actor_pool, simPoolVars >>
         ELSE /\ simActors' = Spawn(simActors, r.actor)
              /\ simDestroyed' = Put(simDestroyed, NextId, 0)
              /\ simFrame' = simFrame + 1
              /\ carla_actor_pool' = Put(carla_actor_pool, NextId, Handle(NextId))
              /\ last' = Returned("request_new_actor", arg, Handle(NextId))
      /\ UNCHANGED << cacheVars, traffic_light_map, bindVars, pool_client,
                      pool_world, spawn_points, spawn_index, simCacheVars,
                      lightVars >>

\* get_hero_actor finding no hero in the pool
no_hero_actor == None

\* get_hero_actor: the first pooled actor whose role_name is 'hero'
get_hero_actor ==
    LET heroes == { actor_id \in DOMAIN carla_actor_pool :
                      simActors[carla_actor_pool[actor_id].id].role_name = "hero" }
    IN  IF heroes = {} THEN None
        ELSE carla_actor_pool[CHOOSE h \in heroes : \A o \in heroes : h <= o]

HeroDistance == 8       \* candidates closer than this to the hero are skipped

\* the role_name setup_batch_actors gives the blueprint of a request
batch_role(req) ==
    IF req.hero THEN "hero"
    ELSE IF req.model = "walker" THEN "walker"
    ELSE IF req.autopilot THEN "autopilot"
    ELSE "scenario"

\* the spawn command appended for a request with pose spawn_point: a walker
\* is spawned from a fresh walker blueprint whose role_name is 'walker'
spawn_command(req, spawn_point) ==
    IF req.model = "walker"
    THEN [type_id |-> "walker", role_name |-> "walker", x |-> spawn_point.x]
    ELSE [type_id |-> "vehicle", role_name |-> batch_role(req),
          x |-> spawn_point.x]

\* the walker blueprints blueprint_library.filter('walker.pedestrian*') offers
\* in world w: the library of world 2 holds one without a speed attribute
WalkerBlueprints(w) ==
    IF w = 1 THEN {[speed |-> TRUE]} ELSE {[speed |-> TRUE], [speed |-> FALSE]}

\* lines 614-641 of one iteration: nothing without a spawn point; else the
\* speed of a walker blueprint that has one is recorded and the spawn
\* command is appended
append_command(req, walker_bp, spawn_point, acc) ==
    IF spawn_point = None THEN acc
    ELSE [batch |-> Append(acc.batch, spawn_command(req, spawn_point)),
          walker_speed |-> IF req.model = "walker" /\ walker_bp.speed
                           THEN Append(acc.walker_speed, "recommended")
                           ELSE acc.walker_speed]

\* the walker blueprint drawn in iteration i (walker requests only)
walker_bp_of(req, bps, i) == IF req.model = "walker" THEN bps[i] ELSE None

\* the request loop advancing the cursor past the last candidate
RECURSIVE build_batch_no_clamp(_, _, _, _, _, _, _)
build_batch_no_clamp(req, navs, bps, hero_actor, i, idx, acc) ==
    IF i > req.amount
    THEN [exc |-> "none", idx |-> idx, batch |-> acc.batch,
          walker_speed |-> acc.walker_speed]
    ELSE IF req.model = "unknown"
    THEN [exc |-> "IndexError", idx |-> idx, batch |-> acc.batch,
          walker_speed |-> acc.walker_speed]
    ELSE IF ~req.random_location
    THEN build_batch_no_clamp(req, navs, bps, hero_actor, i + 1, idx,
                     append_command(req, walker_bp_of(req, bps, i),
                                    req.spawn_point, acc))
    ELSE IF req.model = "walker"
    THEN IF dp_world = None \/ navs[i] = None
         \* the sampled location is dereferenced before the None test
         THEN [exc |-> "AttributeError", idx |-> idx, batch |-> acc.batch,
               walker_speed |-> acc.walker_speed]
         ELSE build_batch_no_clamp(req, navs, bps, hero_actor, i + 1, idx,
                          append_command(req, walker_bp_of(req, bps, i),
                                         navs[i], acc))
    ELSE IF spawn_points = None
    THEN [exc |-> "TypeError", idx |-> idx, batch |-> acc.batch,
          walker_speed |-> acc.walker_speed]
    ELSE IF idx >= Len(spawn_points.points)
    THEN build_batch_no_clamp(req, navs, bps, hero_actor, i + 1, idx + 1, acc)
    ELSE LET spawn_point == Pose(spawn_points.points[idx + 1]) IN
         IF /\ hero_actor # None
            /\ Distance(simActors[hero_actor.id].x, spawn_point.x) < HeroDistance
         THEN build_batch_no_clamp(req, navs, bps, hero_actor, i + 1, idx + 1,
                          append_command(req, None, None, acc))
         ELSE build_batch_no_clamp(req, navs, bps, hero_actor, i + 1, idx + 1,
                          append_command(req, None, spawn_point, acc))

\* the request loop of setup_batch_actors from iteration i on, with cursor
\* idx and the commands and walker speeds collected so far in acc; navs[i]
\* is what the navigation sampler yields in iteration i, bps[i] the walker
\* blueprint drawn in it
RECURSIVE build_batch(_, _, _, _, _, _, _)
build_batch(req, navs, bps, hero_actor, i, idx, acc) ==
    IF i > req.amount
    THEN [exc |-> "none", idx |-> idx, batch |-> acc.batch,
          walker_speed |-> acc.walker_speed]
    ELSE IF req.model = "unknown"
    THEN [exc |-> "IndexError", idx |-> idx, batch |-> acc.batch,
          walker_speed |-> acc.walker_speed]
    ELSE IF ~req.random_location
    THEN build_batch(req, navs, bps, hero_actor, i + 1, idx,
                     append_command(req, walker_bp_of(req, bps, i),
                                    req.spawn_point, acc))
    ELSE IF req.model = "walker"
    THEN IF dp_world = None \/ navs[i] = None
         \* the sampled location is dereferenced before the None test
         THEN [exc |-> "AttributeError", idx |-> idx, batch |-> acc.batch,
               walker_speed |-> acc.walker_speed]
         ELSE build_batch(req, navs, bps, hero_actor, i + 1, idx,
                          append_command(req, walker_bp_of(req, bps, i),
                                         navs[i], acc))
    ELSE IF spawn_points = None
    THEN [exc |-> "TypeError", idx |-> idx, batch |-> acc.batch,
          walker_speed |-> acc.walker_speed]
    ELSE IF idx >= Len(spawn_points.points)
    THEN build_batch(req, navs, bps, hero_actor, i + 1,
                     Len(spawn_points.points), acc)
    ELSE LET spawn_point == Pose(spawn_points.points[idx + 1]) IN
         IF /\ hero_actor # None
            /\ Distance(simActors[hero_actor.id].x, spawn_point.x) < HeroDistance
         THEN build_batch(req, navs, bps, hero_actor, i + 1, idx + 1,
                          append_command(req, None, None, acc))
         ELSE build_batch(req, navs, bps, hero_actor, i + 1, idx + 1,
                          append_command(req, None, spawn_point, acc))

\* batch = [] and walker_speed = [] of lines 576-577
EmptyBatch == [batch |-> << >>, walker_speed |-> << >>]

\* apply_batch_sync giving up at the first command that fails
RECURSIVE apply_batch_sync_abort(_, _, _)
apply_batch_sync_abort(actors, batch, oks) ==
    IF batch = << >> THEN [actors |-> actors, ids |-> << >>]
    ELSE IF Head(oks)
    THEN LET rest == apply_batch_sync_abort(Spawn(actors, Head(batch)),
                                            Tail(batch), Tail(oks))
         IN  [actors |-> rest.actors,
              ids |-> << Cardinality(DOMAIN actors) + 1 >> \o rest.ids]
    ELSE [actors |-> actors, ids |-> << >>]

\* the actors the simulator creates for the commands that succeed
RECURSIVE apply_batch_sync(_, _, _)
apply_batch_sync(actors, batch, oks) ==
    IF batch = << >> THEN [actors |-> actors, ids |-> << >>]
    ELSE IF Head(oks)
    THEN LET rest == apply_batch_sync(Spawn(actors, Head(batch)), Tail(batch),
                                      Tail(oks))
         IN  [actors |-> rest.actors,
              ids |-> << Cardinality(DOMAIN actors) + 1 >> \o rest.ids]
    ELSE apply_batch_sync(actors, Tail(batch), Tail(oks))

\* the controller commands: one per walker among the spawned actors ids
controller_commands(actors, ids) ==
    [i \in 1..Len(SelectSeq(ids, LAMBDA id : actors[id].type_id = "walker")) |->
        [type_id |-> "controller", role_name |-> "controller",
         x |-> actors[SelectSeq(ids, LAMBDA id : actors[id].type_id = "walker")[i]].x]]

\* a call the handler makes on the client, the world or a controller
Call(op, n) == [op |-> op, n |-> n]

\* lines 689-696: every attached controller is started, sent to a sampled
\* destination and given its speed, one controller after the other
walker_calls(ids) ==
    [k \in 1..(3 * Len(ids)) |->
        Call(<< "start", "go_to_location", "set_max_speed" >>[((k - 1) % 3) + 1],
             ids[((k - 1) \div 3) + 1])]

\* setup_batch_actors: bps are the walker blueprints drawn, oks and ctl_oks
\* the per-command responses of the two batches.  Yields the exception, the
\* cursor, the simulator's actors, the frames advanced, the returned actor
\* list, the spawn commands submitted, the walker speeds recorded and the
\* calls made from the first submission on, in the order of the code.
setup_batch_actors(req, navs, bps, oks, ctl_oks) ==
    IF pool_world = None
    THEN [exc |-> "AttributeError", idx |-> spawn_index, actors |-> simActors,
          ticks |-> 0, ret |-> << >>, batch |-> << >>, walker_speed |-> << >>,
          calls |-> << >>]
    ELSE LET hero_actor == IF ~req.hero THEN get_hero_actor ELSE None
             b == build_batch(req, navs, bps, hero_actor, 1, spawn_index,
                              EmptyBatch)
         IN
         IF b.exc # "none"
         THEN [exc |-> b.exc, idx |-> b.idx, actors |-> simActors, ticks |-> 0,
               ret |-> << >>, batch |-> << >>, walker_speed |-> b.walker_speed,
               calls |-> << >>]
         ELSE IF pool_client = None
         \* world.tick() runs, then the unassigned responses are read
         THEN [exc |-> "UnboundLocalError", idx |-> b.idx, actors |-> simActors,
               ticks |-> 1, ret |-> << >>, batch |-> << >>,
               walker_speed |-> b.walker_speed,
               calls |-> << Call("world.tick", 1), Call("_sync", 1) >>]
         ELSE LET spawned == apply_batch_sync(simActors, b.batch,
                                              SubSeq(oks, 1, Len(b.batch)))
                  controllers == controller_commands(spawned.actors, spawned.ids)
                  attached == apply_batch_sync(spawned.actors, controllers,
                                               SubSeq(ctl_oks, 1, Len(controllers)))
              IN  [exc |-> "none", idx |-> b.idx, actors |-> attached.actors,
                   ticks |-> 1, ret |-> [i \in DOMAIN spawned.ids |->
                                           Handle(spawned.ids[i])],
                   batch |-> b.batch, walker_speed |-> b.walker_speed,
                   calls |-> << Call("apply_batch_sync(batch)", Len(b.batch)),
                                Call("world.tick", 1), Call("_sync", 1),
                                Call("apply_batch_sync(controllers)",
                                     Len(controllers)) >>
                             \o walker_calls(attached.ids)]

\* the requests of the model: the arguments a request does not read are
\* left at their defaults
BatchRequests ==
    { req \in [model : Models, amount : 0..MaxAmount,
               spawn_point : {None, Pose(0)}, hero : BOOLEAN,
               autopilot : BOOLEAN, random_location : BOOLEAN] :
        /\ req.random_location => req.spawn_point = None
        /\ (req.hero \/ req.model # "vehicle") => ~req.autopilot
        /\ req.model = "unknown" => ~req.hero }

\* what the navigation sampler yields
NavSamples == {None} \cup { Pose(x) : x \in NavPoints }

RECURSIVE PutAll(_, _)
PutAll(pool, actors) ==
    IF actors = << >> THEN pool
    ELSE PutAll(Put(pool, Head(actors).id, Head(actors)), Tail(actors))

\* the number of spawn commands the first batch of a request submits
batch_size(req, navs, bps) ==
    IF pool_world = None \/ pool_client = None THEN 0
    ELSE LET b == build_batch(req, navs, bps,
                              IF ~req.hero THEN get_hero_actor ELSE None,
                              1, spawn_index, EmptyBatch)
         IN  IF b.exc # "none" THEN 0 ELSE Len(b.batch)

\* request_new_batch_actors: setup_batch_actors, then the pool insertions.
\* The simulator answers each submitted command with success or an error.
RequestNewBatchActors(req) ==
    \E navs \in [1..(IF req.model = "walker" /\ req.random_location
                       THEN req.amount ELSE 0) -> NavSamples] :
    \E bps \in [1..(IF req.model = "walker" /\ pool_world # None
                      THEN req.amount ELSE 0)
                  -> WalkerBlueprints(IF pool_world # None
                                      THEN pool_world.world ELSE 1)] :
    \E oks \in [1..batch_size(req, navs, bps) -> BOOLEAN] :
    \E ctl_oks \in [1..(IF req.model = "walker"
                        THEN Cardinality({ i \in DOMAIN oks : oks[i] }) ELSE 0)
                      -> BOOLEAN] :
      LET r == setup_batch_actors(req, navs, bps, oks, ctl_oks)
          arg == [model |-> req.model, amount |-> req.amount,
                  hero |-> req.hero, autopilot |-> req.autopilot,
                  random_location |-> req.random_location,
                  nav_none |-> \E i \in DOMAIN navs : navs[i] = None,
                  responses |-> oks, controller_responses |-> ctl_oks,
                  batch |-> r.batch, walker_speed |-> r.walker_speed,
                  calls |-> r.calls]
      IN
      /\ Cardinality(DOMAIN r.actors) <= MaxSpawn
      /\ simFrame + r.ticks <= MaxFrame
      /\ spawn_index' = r.idx
      /\ simActors' = r.actors
      /\ simDestroyed' = [id \in DOMAIN r.actors |->
                             IF id \in DOMAIN simDestroyed THEN simDestroyed[id]
                             ELSE 0]
      /\ simFrame' = simFrame + r.ticks
      /\ IF r.exc = "none"
         THEN /\ carla_actor_pool' = PutAll(carla_actor_pool, r.ret)
              /\ last' = Returned("request_new_batch_actors", arg, r.ret)
         ELSE /\ carla_actor_pool' = carla_actor_pool
              /\ last' = Raised("request_new_batch_actors", arg, r.exc)
      /\ UNCHANGED << cacheVars, traffic_light_map, bindVars, pool_client,
                      pool_world, spawn_points, simCacheVars, lightVars >>

\* actor.destroy() on every actor of ids
Destroy(ids) ==
    simDestroyed' = [id \in DOMAIN simDestroyed |->
                        IF id \in ids THEN simDestroyed[id] + 1
                        ELSE simDestroyed[id]]

\* remove_actor_by_id dropping the entry without destroying the actor
RemoveActorByIdNoDestroy(actor_id) ==
    /\ carla_actor_pool' = Remove(carla_actor_pool, {actor_id})
    /\ last' = Returned("remove_actor_by_id", actor_id, None)
    /\ UNCHANGED << cacheVars, traffic_light_map, bindVars, pool_client,
                    pool_world, spawn_points, spawn_index, simCacheVars,
                    lightVars, simPoolVars >>

\* remove_actor_by_id
RemoveActorById(actor_id) ==
    /\ IF actor_id \in DOMAIN carla_actor_pool
       THEN /\ Destroy({carla_actor_pool[actor_id].id})
            /\ carla_actor_pool' = Remove(carla_actor_pool, {actor_id})
       ELSE UNCHANGED << simDestroyed, carla_actor_pool >>
    /\ last' = Returned("remove_actor_by_id", actor_id, None)
    /\ UNCHANGED << cacheVars, traffic_light_map, bindVars, pool_client,
                    pool_world, spawn_points, spawn_index, simCacheVars,
                    lightVars, simActors, simFrame >>

\* remove_actors_in_surrounding with <= in place of <
in_surrounding_inclusive(location, distance) ==
    { actor_id \in DOMAIN carla_actor_pool :
        Distance(simActors[carla_actor_pool[actor_id].id].x, location) <= distance }

\* the pooled identities remove_actors_in_surrounding destroys and pops
in_surrounding(location, distance) ==
    { actor_id \in DOMAIN carla_actor_pool :
        Distance(simActors[carla_actor_pool[actor_id].id].x, location) < distance }

\* remove_actors_in_surrounding, with its final filter of None values
RemoveActorsInSurrounding(location, distance) ==
    LET gone == in_surrounding(location, distance)
        popped == Remove(carla_actor_pool, gone)
    IN
    /\ Destroy({ carla_actor_pool[actor_id].id : actor_id \in gone })
    /\ carla_actor_pool' = [k \in { k \in DOMAIN popped : popped[k] # None }
                               |-> popped[k]]
    /\ last' = Returned("remove_actors_in_surrounding",
                        [location |-> location, distance |-> distance], gone)
    /\ UNCHANGED << cacheVars, traffic_light_map, bindVars, pool_client,
                    pool_world, spawn_points, spawn_index, simCacheVars,
                    lightVars, simActors, simFrame >>

\* cleanup emptying the pool without destroying its actors
pool_cleanup_no_destroy ==
    /\ simDestroyed' = simDestroyed
    /\ carla_actor_pool' = EmptyMap
    /\ pool_world' = None
    /\ pool_client' = None
    /\ spawn_points' = None
    /\ spawn_index' = 0

\* CarlaActorPool.cleanup
pool_cleanup ==
    /\ Destroy({ carla_actor_pool[actor_id].id : actor_id \in DOMAIN carla_actor_pool })
    /\ carla_actor_pool' = EmptyMap
    /\ pool_world' = None
    /\ pool_client' = None
    /\ spawn_points' = None
    /\ spawn_index' = 0

PoolCleanup ==
    /\ pool_cleanup
    /\ last' = Returned("CarlaActorPool.cleanup", DOMAIN carla_actor_pool, None)
    /\ UNCHANGED << cacheVars, traffic_light_map, bindVars, simCacheVars,
                    lightVars, simActors, simFrame >>

\* a pooled actor moves in the simulator
SimDrive(actor_id, x) ==
    /\ actor_id \in DOMAIN carla_actor_pool
    /\ simActors[actor_id].x # x
    /\ simActors' = [simActors EXCEPT ![actor_id].x = x]
    /\ last' = Returned("sim_drive", actor_id, None)
    /\ UNCHANGED << cacheVars, traffic_light_map, bindVars, poolVars,
                    simCacheVars, lightVars, simDestroyed, simFrame >>

----------------------------------------------------------------------------
(* CarlaDataProvider: the next traffic light of an actor *)

\* traffic_light.trigger_volume.location, in the light's own frame
TriggerLocation(light) == [x |-> light, y |-> 0, z |-> 0]

\* carla.Transform.transform: rotate p by the yaw, then translate
transform(t, p) ==
    LET rx == IF t.yaw = 0 THEN p.x
              ELSE IF t.yaw = 180 THEN 0 - p.x
              ELSE IF t.yaw = 90 THEN 0 - p.y
              ELSE p.y
        ry == IF t.yaw = 0 THEN p.y
              ELSE IF t.yaw = 180 THEN 0 - p.y
              ELSE IF t.yaw = 90 THEN p.x
              ELSE 0 - p.x
    IN  [x |-> t.location.x + rx, y |-> t.location.y + ry,
         z |-> t.location.z + p.z]

\* the square of carla.Location.distance, which orders as the distance does
Distance2(p, q) ==
    (p.x - q.x) * (p.x - q.x) + (p.y - q.y) * (p.y - q.y)
    + (p.z - q.z) * (p.z - q.z)

\* the lane of map m runs along the x axis: on map 1 it enters a junction
\* at x = 14, on map 2 at x = 20 and its last waypoint before a gap is 16
is_intersection(m, x) == x >= (IF m = 1 THEN 14 ELSE 20)

\* waypoint.next(2.0): the list of successors two metres ahead
waypoint_next(m, x) ==
    IF m = 2 /\ x <= 16 /\ x + 2 > 16 THEN << >> ELSE << x + 2 >>

\* map.get_waypoint(location): the projection on the lane
get_waypoint(location) == location.x

\* the while loop of get_next_traffic_light from waypoint x on
RECURSIVE collect_waypoints(_, _, _)
collect_waypoints(m, x, list_of_waypoints) ==
    IF is_intersection(m, x)
    THEN [list |-> list_of_waypoints, exc |-> "none"]
    ELSE IF waypoint_next(m, x) = << >>
    THEN [list |-> Append(list_of_waypoints, x), exc |-> "IndexError"]
    ELSE collect_waypoints(m, waypoint_next(m, x)[1],
                           Append(list_of_waypoints, x))

\* the selection loop replacing the light on an equal distance as well
RECURSIVE relevant_traffic_light_last(_, _, _, _, _)
relevant_traffic_light_last(reg, order, target, relevant, best) ==
    IF order = << >> THEN relevant
    ELSE LET traffic_light == Head(order)
             transformed_tv == transform(reg[traffic_light],
                                         TriggerLocation(traffic_light))
             distance == Distance2(transformed_tv, target)
         IN  IF best = None \/ distance <= best.d
             THEN relevant_traffic_light_last(reg, Tail(order), target,
                                              [light |-> traffic_light],
                                              [d |-> distance])
             ELSE relevant_traffic_light_last(reg, Tail(order), target,
                                              relevant, best)

\* the selection loop over the registry reg in its iteration order; best
\* is None for float("inf")
RECURSIVE relevant_traffic_light(_, _, _, _, _)
relevant_traffic_light(reg, order, target, relevant, best) ==
    IF order = << >> THEN relevant
    ELSE LET traffic_light == Head(order)
             transformed_tv == transform(reg[traffic_light],
                                         TriggerLocation(traffic_light))
             distance == Distance2(transformed_tv, target)
         IN  IF best = None \/ distance < best.d
             THEN relevant_traffic_light(reg, Tail(order), target,
                                         [light |-> traffic_light],
                                         [d |-> distance])
             ELSE relevant_traffic_light(reg, Tail(order), target,
                                         relevant, best)

\* get_next_traffic_light: prepare_map on the scanned lights, the waypoint
\* walk and the selection.  After a successful prepare_map the registry
\* iterates in the order of the scan.
get_next_traffic_light(actor, use_cached_location, scan) ==
    LET pm == prepare_map(scan)
        location == IF use_cached_location THEN get_location(actor).ret
                    ELSE SimLocation(actor)
    IN  IF pm.exc # "none"
        THEN [map |-> pm.map, reg |-> pm.reg, ret |-> None, exc |-> pm.exc]
        ELSE IF location = None
        THEN [map |-> pm.map, reg |-> pm.reg, ret |-> None,
              exc |-> "ArgumentError"]
        ELSE LET w == collect_waypoints(pm.map.map_of, get_waypoint(location),
                                        << >>)
             IN  IF w.exc # "none"
                 THEN [map |-> pm.map, reg |-> pm.reg, ret |-> None,
                       exc |-> w.exc]
                 ELSE IF w.list = << >>
                 THEN [map |-> pm.map, reg |-> pm.reg, ret |-> None,
                       exc |-> "none"]
                 ELSE [map |-> pm.map, reg |-> pm.reg, exc |-> "none",
                       ret |-> relevant_traffic_light(
                                 pm.reg, scan,
                                 [x |-> w.list[Len(w.list)], y |-> 0, z |-> 0],
                                 None, None)]

GetNextTrafficLight(actor, use_cached_location, scan) ==
    LET r == get_next_traffic_light(actor, use_cached_location, scan) IN
    /\ dp_map' = r.map
    /\ traffic_light_map' = r.reg
    /\ last' = [op |-> "get_next_traffic_light",
                arg |-> [actor |-> actor,
                         use_cached_location |-> use_cached_location,
                         scan |-> scan],
                ret |-> r.ret, exc |-> r.exc]
    /\ UNCHANGED << cacheVars, dp_world, sync_flag, ego_vehicle_route, poolVars,
                    simCacheVars, lightVars, simPoolVars >>

----------------------------------------------------------------------------
(* CarlaActorPool: the frame barrier of setup_batch_actors, step by step *)

\* the frame barrier is in progress: world.tick() has returned and _sync
\* has not yet finished
InBarrier == last.op \in {"world.tick", "_sync.wait", "_sync.passed"}

\* line 647: world.tick() asks for one more frame and returns its number;
\* simFrame is the frame of the latest snapshot the world reports
BatchTick ==
    /\ pool_world # None
    /\ ~InBarrier
    /\ simFrame < MaxFrame
    /\ last' = Returned("world.tick", simFrame + 1, simFrame + 1)
    /\ UNCHANGED << cacheVars, traffic_light_map, bindVars, poolVars,
                    simCacheVars, lightVars, simPoolVars >>

\* line 555: one evaluation of the loop condition, reading the snapshot
SyncPoll ==
    /\ last.op \in {"world.tick", "_sync.wait"}
    /\ last' = IF last.arg > simFrame
               THEN Returned("_sync.wait", last.arg, None)
               ELSE Returned("_sync.passed", last.arg, None)
    /\ UNCHANGED << cacheVars, traffic_light_map, bindVars, poolVars,
                    simCacheVars, lightVars, simPoolVars >>

\* line 557: the assertion, reading the snapshot again
SyncAssert ==
    /\ last.op = "_sync.passed"
    /\ last' = IF last.arg = simFrame
               THEN Returned("_sync", last.arg, None)
               ELSE Raised("_sync", last.arg, "AssertionError")
    /\ UNCHANGED << cacheVars, traffic_light_map, bindVars, poolVars,
                    simCacheVars, lightVars, simPoolVars >>

\* the simulator publishes a frame: the one a tick asked for, or, in a
\* world that does not run synchronously, a frame of its own
SimAdvance ==
    /\ pool_world # None
    /\ simFrame < MaxFrame
    /\ \/ ~WorldSync(pool_world.world)
       \/ InBarrier /\ simFrame < last.arg
    /\ simFrame' = simFrame + 1
    /\ UNCHANGED << cacheVars, traffic_light_map, bindVars, poolVars,
                    simCacheVars, lightVars, simActors, simDestroyed, last >>

----------------------------------------------------------------------------
(* CarlaActorPool.setup_actor, with the retry loop of random_location     *)
(* taken one spawn attempt at a time                                       *)

MaxRetry == 2           \* the attempt counter of the retry loop wraps here

\* a live actor stands at position x, so try_spawn_actor there collides
Occupied(x) ==
    \E id \in DOMAIN simActors : simDestroyed[id] = 0 /\ simActors[id].x = x

\* the retry loop of lines 521-525 is running
InRetryLoop == last.op = "setup_actor.retry"

\* the actor a successful setup_actor leaves in the simulator, and the tick
\* that follows the spawn
SetupActorSpawned(arg, actor) ==
    /\ NextId <= MaxSpawn /\ simFrame < MaxFrame
    /\ simActors' = Spawn(simActors, actor)
    /\ simDestroyed' = Put(simDestroyed, NextId, 0)
    /\ simFrame' = simFrame + 1
    /\ last' = Returned("setup_actor", arg, Handle(NextId))

\* setup_actor at an exact spawn point: one spawn attempt
SetupActorExact(model, spawn_point) ==
    /\ ~InRetryLoop
    /\ \E spawned \in (IF Occupied(spawn_point.x) THEN {FALSE} ELSE BOOLEAN) :
         LET r == setup_actor(model, spawn_point, "scenario", FALSE, FALSE,
                              "car", spawned, spawn_point.x)
             arg == [model |-> model, random_location |-> FALSE,
                     attempts |-> 1]
         IN  IF r.exc # "none"
             THEN /\ last' = Raised("setup_actor", arg, r.exc)
                  /\ UNCHANGED simPoolVars
             ELSE SetupActorSpawned(arg, r.actor)
    /\ UNCHANGED << cacheVars, traffic_light_map, bindVars, poolVars,
                    simCacheVars, lightVars >>

\* setup_actor with random_location, up to the entry of the retry loop
SetupActorRandom(model) ==
    /\ ~InRetryLoop
    /\ LET r == setup_actor(model, None, "scenario", FALSE, TRUE, "car", TRUE, 0)
           arg == [model |-> model, random_location |-> TRUE, attempts |-> 0]
       IN  last' = IF r.exc # "none" THEN Raised("setup_actor", arg, r.exc)
                   ELSE Returned("setup_actor.retry", arg, None)
    /\ UNCHANGED << cacheVars, traffic_light_map, bindVars, poolVars,
                    simCacheVars, lightVars, simPoolVars >>

\* one iteration of the retry loop: a candidate is drawn and tried; the
\* loop ends only with an actor
TrySpawnRandom ==
    /\ InRetryLoop
    /\ \E at \in Range(spawn_points.points),
          spawned \in BOOLEAN :
         /\ Occupied(at) => ~spawned
         /\ LET r == setup_actor(last.arg.model, None, "scenario", FALSE, TRUE,
                                 "car", TRUE, at)
                arg == [last.arg EXCEPT
                          !.attempts = (last.arg.attempts % MaxRetry) + 1]
            IN  IF spawned
                THEN SetupActorSpawned(arg, r.actor)
                ELSE /\ last' = Returned("setup_actor.retry", arg, None)
                     /\ UNCHANGED simPoolVars
    /\ UNCHANGED << cacheVars, traffic_light_map, bindVars, poolVars,
                    simCacheVars, lightVars >>

----------------------------------------------------------------------------
(* Initial states *)

InitCache ==
    /\ actor_velocity_map = EmptyMap
    /\ actor_location_map = EmptyMap
    /\ actor_transform_map = EmptyMap
    /\ traffic_light_map = EmptyMap
    /\ dp_map = None
    /\ dp_world = None
    /\ sync_flag = FALSE
    /\ ego_vehicle_route = None

InitPool ==
    /\ pool_client = None
    /\ pool_world = None
    /\ carla_actor_pool = EmptyMap
    /\ spawn_points = None
    /\ spawn_index = 0

InitSimCache ==
    /\ simAlive = [a \in Actors |-> TRUE]
    /\ simSample = [a \in Actors |-> 1]

InitSimPool ==
    /\ simActors = EmptyMap
    /\ simDestroyed = EmptyMap
    /\ simFrame = 0

InitLightsFixed ==
    /\ tlYaw = [l \in Lights |-> 0]
    /\ tlState = [l \in Lights |-> "Red"]
    /\ tlGreen = [l \in Lights |-> 1]
    /\ tlRed = [l \in Lights |-> 2]
    /\ tlYellow = [l \in Lights |-> 3]
    /\ reset_params = << >>
    /\ tlBefore = None

Init ==
    /\ InitCache /\ InitPool /\ InitSimCache /\ InitSimPool /\ InitLightsFixed
    /\ last = Returned("init", None, None)

----------------------------------------------------------------------------
(* Spec: the telemetry cache, driven by single registrations, ticks,     *)
(* queries, world binding, cleanup and the simulator                      *)

Next ==
    \/ \E actor \in Actors : RegisterActor(actor)
    \/ OnCarlaTick
    \/ \E actor \in Actors : GetVelocity(actor)
    \/ \E actor \in Actors : GetLocation(actor)
    \/ \E actor \in Actors : GetTransform(actor)
    \/ \E w \in Worlds : SetWorld(w)
    \/ DataProviderCleanup
    \/ \E actor \in Actors : SimMove(actor)
    \/ \E actor \in Actors : SimDie(actor)

Spec == Init /\ [][Next]_vars

(* SpecRegister: registration of single actors and of lists, ticks and   *)
(* cleanup, with actors dying in the simulator                            *)

NextRegister ==
    \/ \E actor \in Actors : RegisterActor(actor)
    \/ \E actors \in ActorLists : RegisterActors(actors)
    \/ OnCarlaTick
    \/ DataProviderCleanup
    \/ \E actor \in Actors : SimDie(actor)

SpecRegister == Init /\ [][NextRegister]_vars

----------------------------------------------------------------------------
(* Claims about the telemetry cache *)

Registered(actor) ==
    \/ actor \in DOMAIN actor_velocity_map
    \/ actor \in DOMAIN actor_location_map
    \/ actor \in DOMAIN actor_transform_map

\* C2: register_actor(a) raises the duplicate-registration KeyError exactly
\* when a is already registered; otherwise it returns normally and a is in
\* the velocity, location and transform buffers with 0.0, None and None.
C2_RegisterFailsIffDuplicate ==
    [][last'.op = "register_actor" =>
         LET a == last'.arg IN
         /\ (last'.exc = "KeyError") <=> Registered(a)
         /\ last'.exc \in {"none", "KeyError"}
         /\ ~Registered(a) =>
               /\ a \in DOMAIN actor_velocity_map' /\ actor_velocity_map'[a] = 0
               /\ a \in DOMAIN actor_location_map' /\ actor_location_map'[a] = None
               /\ a \in DOMAIN actor_transform_map' /\ actor_transform_map'[a] = None
      ]_vars

\* a first registration that succeeded while another actor holds ticked values
C2_Witness ==
    /\ last.op = "register_actor" /\ last.exc = "none"
    /\ actor_velocity_map[last.arg] = 0
    /\ \E other \in DOMAIN actor_velocity_map : actor_velocity_map[other] > 0

\* C3: a register_actor call that raises leaves the three buffers as they
\* were, and after every operation the three buffers hold the same keys.
C3_NoPartialRegistration ==
    [][/\ (last'.op = "register_actor" /\ last'.exc # "none")
            => UNCHANGED cacheVars
       /\ DOMAIN actor_velocity_map' = DOMAIN actor_location_map'
       /\ DOMAIN actor_location_map' = DOMAIN actor_transform_map'
      ]_vars

\* a duplicate registration of an actor whose entry holds ticked values
C3_Witness ==
    /\ last.op = "register_actor" /\ last.exc = "KeyError"
    /\ last.arg \in DOMAIN actor_velocity_map
    /\ actor_velocity_map[last.arg] > 0
    /\ actor_location_map[last.arg] # None

C5_UnregisteredDefaults ==
    [][(last'.op \in {"get_velocity", "get_location", "get_transform"}
        /\ ~Registered(last'.arg)) =>
         /\ last'.exc = "none"
         /\ last'.op = "get_velocity" => last'.ret = 0
         /\ last'.op = "get_location" => last'.ret = None
         /\ last'.op = "get_transform" => last'.ret = None
         /\ UNCHANGED << cacheVars, traffic_light_map, bindVars >>
      ]_vars

\* get_location for an unregistered identity while another actor is cached
C5_Witness ==
    /\ last.op = "get_location" /\ ~Registered(last.arg)
    /\ \E other \in DOMAIN actor_location_map : actor_location_map[other] # None

----------------------------------------------------------------------------
(* SpecLights: overriding and restoring the lights of one group *)

InitLights ==
    /\ InitCache /\ InitPool /\ InitSimCache /\ InitSimPool
    /\ tlYaw \in [Lights -> Yaws]
    /\ tlState \in [Lights -> LightStates]
    /\ tlGreen = [l \in Lights |-> 10 + l]
    /\ tlRed = [l \in Lights |-> 20 + l]
    /\ tlYellow = [l \in Lights |-> 30 + l]
    /\ reset_params = << >>
    /\ tlBefore = None
    /\ last = Returned("init", None, None)

NextLights ==
    \/ \E ego_light \in Lights, states \in DesiredStates, freeze \in BOOLEAN :
          UpdateLightStates(ego_light, states, freeze)
    \/ ResetLights

SpecLights == InitLights /\ [][NextLights]_vars

TouchedLights == { reset_params[i].light : i \in DOMAIN reset_params }

\* C1: update_light_states followed by reset_lights on the returned records
\* leaves every touched light with the state and the green, red and yellow
\* durations it had before update_light_states was called.
C1_ResetRestores ==
    last.op = "reset_lights" =>
        \A l \in TouchedLights :
            /\ tlState[l] = tlBefore.state[l]
            /\ tlGreen[l] = tlBefore.green[l]
            /\ tlRed[l] = tlBefore.red[l]
            /\ tlYellow[l] = tlBefore.yellow[l]

----------------------------------------------------------------------------
(* SpecMap: world binding, lazy map resolution and the rebuilding of the *)
(* traffic-light registry                                                *)

NextMap ==
    \/ \E w \in Worlds : SetWorld(w)
    \/ \E world \in {None} \cup { World(w) : w \in Worlds } : GetMap(world)
    \/ \E scan \in Scans : PrepareMap(scan)
    \/ DataProviderCleanup

SpecMap == Init /\ [][NextMap]_vars

\* the registry holding exactly the lights of a scan of world w
ScanRegistry(w, scan) ==
    [l \in { scan[i] : i \in DOMAIN scan } |-> TlTransform(w, l)]

\* C10: after every prepare_map call, returning or raising, the registry is
\* either exactly the lights found by this call's scan, each with its
\* transform, or exactly what it was before the call.
C10_RegistryNeverPartial ==
    [][last'.op = "prepare_map" =>
         \/ traffic_light_map' = traffic_light_map
         \/ /\ dp_world # None
            /\ traffic_light_map' = ScanRegistry(dp_world.world, last'.arg)
      ]_vars

----------------------------------------------------------------------------------------------------------------------------------------
(* SpecPool: the actor pool with single requests, removal by identity    *)
(* and by surrounding, cleanup, and pooled actors moving in the simulator *)

NextPool ==
    \/ \E w \in {1} : PoolSetWorld(w)
    \/ \E model \in {"vehicle", "unknown"}, x \in {0, 8},
         random_location \in BOOLEAN, vehicle_category \in Categories :
          RequestNewActor(model, Pose(x), "scenario", FALSE, random_location,
                          vehicle_category)
    \/ \E actor_id \in ActorIds : RemoveActorById(actor_id)
    \/ \E location \in {0, 20}, distance \in {8, 15} :
          RemoveActorsInSurrounding(location, distance)
    \/ PoolCleanup
    \/ \E actor_id \in ActorIds : SimDrive(actor_id, 20)

SpecPool == Init /\ [][NextPool]_vars

(* SpecBatch: batched requests against a bound pool *)

NextBatch ==
    \/ PoolSetClient
    \/ \E w \in {1} : PoolSetWorld(w)
    \/ \E w \in {1} : SetWorld(w)
    \/ \E req \in { r \in BatchRequests : ~r.hero /\ ~r.autopilot } :
          RequestNewBatchActors(req)

SpecBatch == Init /\ [][NextBatch]_vars

----------------------------------------------------------------------------
(* Claims about the actor pool *)

\* C6: when setup_actor fails to create the actor (world bound, model
\* known), request_new_actor returns None instead of raising and the pool
\* is unchanged; when it succeeds the pool gains the returned actor under
\* its identity.
C6_RequestReturnsNoneOnFailure ==
    [][(/\ last'.op = "request_new_actor"
        /\ pool_world # None
        /\ last'.arg.model # "unknown") =>
         /\ last'.exc = "none"
         /\ IF last'.ret = None
            THEN carla_actor_pool' = carla_actor_pool
            ELSE carla_actor_pool' = Put(carla_actor_pool, last'.ret.id, last'.ret)
      ]_vars

\* C7: remove_actors_in_surrounding(p, r) destroys and removes exactly the
\* pooled actors whose live distance to p is below r; the others, those at
\* exactly r included, keep their entries and are not destroyed.
C7_SurroundingRemoval ==
    [][last'.op = "remove_actors_in_surrounding" =>
         LET p == last'.arg.location
             r == last'.arg.distance
             near == { id \in DOMAIN carla_actor_pool :
                         /\ simActors[id].x - p < r
                         /\ p - simActors[id].x < r }
         IN  /\ DOMAIN carla_actor_pool' = (DOMAIN carla_actor_pool) \ near
             /\ \A id \in DOMAIN carla_actor_pool' :
                   /\ carla_actor_pool'[id] = carla_actor_pool[id]
                   /\ simDestroyed'[id] = simDestroyed[id]
             /\ \A id \in near : simDestroyed'[id] = simDestroyed[id] + 1
      ]_vars

\* a removal that destroyed an actor and kept one at exactly the radius
C7_Witness ==
    /\ last.op = "remove_actors_in_surrounding"
    /\ last.ret # {}
    /\ \E id \in DOMAIN carla_actor_pool :
          Distance(simActors[id].x, last.arg.location) = last.arg.distance

\* C9: a request_new_batch_actors call with random_location on a bound pool
\* that asks for more vehicles than the remaining spawn candidates, or for
\* walkers while the navigation sampler yields no point, does not raise,
\* returns fewer actors than requested, each created at a valid pose.
C9_ShortSupplyNeverRaises ==
    [][(/\ last'.op = "request_new_batch_actors"
        /\ last'.arg.random_location
        /\ pool_world # None /\ pool_client # None /\ dp_world # None
        /\ \/ /\ last'.arg.model = "vehicle"
              /\ last'.arg.amount > Len(spawn_points.points) - spawn_index
           \/ /\ last'.arg.model = "walker"
              /\ last'.arg.nav_none) =>
         /\ last'.exc = "none"
         /\ Len(last'.ret) < last'.arg.amount
         /\ \A i \in DOMAIN last'.ret :
               simActors'[last'.ret[i].id].x
                   \in Range(spawn_points.points) \cup NavPoints
      ]_vars

----------------------------------------------------------------------------
(* SpecCleanup: the cache and the pool are filled and cleaned up *)

NextCleanup ==
    \/ \E actor \in Actors : RegisterActor(actor)
    \/ \E w \in {1} : SetWorld(w)
    \/ PrepareMap(group_tl)
    \/ SetEgoVehicleRoute([route |-> 1])
    \/ DataProviderCleanup
    \/ PoolSetClient
    \/ \E w \in {1} : PoolSetWorld(w)
    \/ RequestNewActor("vehicle", Pose(0), "scenario", FALSE, FALSE, "car")
    \/ PoolCleanup

SpecCleanup == Init /\ [][NextCleanup]_vars

\* C8: CarlaDataProvider.cleanup empties the four maps and unsets world,
\* map, sync flag and route; CarlaActorPool.cleanup empties the pool,
\* destroys every pooled actor and resets world, client, spawn points and
\* cursor; after the cache cleanup every identity, the cleared ones
\* included, registers without a duplicate-registration error.
C8_CleanupResets ==
    [][/\ last'.op = "CarlaDataProvider.cleanup" =>
            /\ actor_velocity_map' = EmptyMap
            /\ actor_location_map' = EmptyMap
            /\ actor_transform_map' = EmptyMap
            /\ traffic_light_map' = EmptyMap
            /\ dp_world' = None /\ dp_map' = None
            /\ sync_flag' = FALSE /\ ego_vehicle_route' = None
            /\ \A a \in Actors :
                  register_actor([v |-> actor_velocity_map',
                                  l |-> actor_location_map',
                                  t |-> actor_transform_map'], a).exc = "none"
       /\ last'.op = "CarlaActorPool.cleanup" =>
            /\ carla_actor_pool' = EmptyMap
            /\ \A id \in DOMAIN carla_actor_pool :
                  simDestroyed'[id] = simDestroyed[id] + 1
            /\ pool_world' = None /\ pool_client' = None
            /\ spawn_points' = None /\ spawn_index' = 0
      ]_vars

\* the cache cleaned up with every actor registered, after the pool was
\* cleaned up with a pooled actor in it
C8_Witness ==
    /\ last.op = "CarlaDataProvider.cleanup" /\ last.arg = Actors
    /\ carla_actor_pool = EmptyMap /\ pool_world = None
    /\ \E id \in DOMAIN simDestroyed : simDestroyed[id] = 1

----------------------------------------------------------------------------
(* SpecNextLight: one actor drives towards a junction of lights with any  *)
(* headings and asks for its next traffic light                            *)

InitNextLight ==
    /\ InitCache /\ InitPool /\ InitSimCache /\ InitSimPool
    /\ tlYaw \in [Lights -> Yaws]
    /\ tlState = [l \in Lights |-> "Red"]
    /\ tlGreen = [l \in Lights |-> 1]
    /\ tlRed = [l \in Lights |-> 2]
    /\ tlYellow = [l \in Lights |-> 3]
    /\ reset_params = << >>
    /\ tlBefore = None
    /\ last = Returned("init", None, None)

NextNextLight ==
    \/ \E w \in Worlds : SetWorld(w)
    \/ \E actor \in {1} : RegisterActor(actor)
    \/ OnCarlaTick
    \/ \E actor \in {1} : SimMove(actor)
    \/ \E actor \in {1}, use_cached_location \in BOOLEAN,
          scan \in { s \in Scans : Len(s) <= 2 } :
            GetNextTrafficLight(actor, use_cached_location, scan)

SpecNextLight == InitNextLight /\ [][NextNextLight]_vars

\* the position the walk of the last get_next_traffic_light started from
C11_Start ==
    IF last.arg.use_cached_location
    THEN actor_location_map[last.arg.actor].x
    ELSE SimLocation(last.arg.actor).x

\* the last waypoint before the junction on the lane of the bound map
C11_LastWaypoint ==
    LET m == dp_map.map_of
        x == CHOOSE x \in C11_Start..(C11_Start + 20) :
               /\ (x - C11_Start) % 2 = 0
               /\ ~is_intersection(m, x)
               /\ is_intersection(m, x + 2)
    IN  [x |-> x, y |-> 0, z |-> 0]

\* the distance (squared) of the trigger region of light l, in world
\* coordinates, to the last waypoint before the junction
C11_TriggerDistance(l) ==
    Distance2(transform(traffic_light_map[l], TriggerLocation(l)),
              C11_LastWaypoint)

\* C11: a get_next_traffic_light call that returns yields None when the
\* walk starts inside the junction or no light is registered; otherwise the
\* registered light whose transformed trigger location is nearest to the
\* last waypoint before the junction, the first in registration order among
\* the nearest ones.  It raises only when no world is bound, the scan lists
\* a light twice, no location is known or the lane ends before a junction.
C11_NextTrafficLight ==
    (last.op = "get_next_traffic_light") =>
      LET scan == last.arg.scan
          located == IF last.arg.use_cached_location
                     THEN /\ last.arg.actor \in DOMAIN actor_location_map
                          /\ actor_location_map[last.arg.actor] # None
                     ELSE TRUE
      IN
      IF last.exc = "none"
      THEN IF is_intersection(dp_map.map_of, C11_Start) \/ scan = << >>
           THEN last.ret = None
           ELSE /\ last.ret # None
                /\ \E i \in DOMAIN scan :
                     /\ last.ret.light = scan[i]
                     /\ \A j \in DOMAIN scan :
                          /\ C11_TriggerDistance(scan[i]) <= C11_TriggerDistance(scan[j])
                          /\ j < i => C11_TriggerDistance(scan[i]) < C11_TriggerDistance(scan[j])
      ELSE \/ dp_world = None
           \/ \E i, j \in DOMAIN scan : i # j /\ scan[i] = scan[j]
           \/ ~located
           \/ /\ located
              /\ dp_map.map_of = 2
              /\ C11_Start <= 16

\* two registered lights at the same distance: the first registered wins
C11_Witness ==
    /\ last.op = "get_next_traffic_light" /\ last.exc = "none"
    /\ last.ret # None
    /\ Len(last.arg.scan) = 2
    /\ last.ret.light = last.arg.scan[1]
    /\ C11_TriggerDistance(last.arg.scan[1]) = C11_TriggerDistance(last.arg.scan[2])

----------------------------------------------------------------------------
(* SpecRotate: a group of lights with headings on a 15-degree grid of     *)
(* [-180, 180) is annotated and turned                                     *)

Headings == { 15 * k - 180 : k \in 0..23 }

InitRotate ==
    /\ InitCache /\ InitPool /\ InitSimCache /\ InitSimPool
    /\ tlYaw \in [Lights -> Headings]
    /\ tlState = [l \in Lights |-> "Red"]
    /\ tlGreen = [l \in Lights |-> 1]
    /\ tlRed = [l \in Lights |-> 2]
    /\ tlYellow = [l \in Lights |-> 3]
    /\ reset_params = << >>
    /\ tlBefore = None
    /\ last = Returned("init", None, None)

NextRotate ==
    \/ \E traffic_light \in Lights : AnnotateTrafficLightInGroup(traffic_light)
    \/ \E c \in {15, 105} : RotateHeadings(c)

SpecRotate == InitRotate /\ [][NextRotate]_vars

\* C12: shifting the heading of every light of the group by a constant,
\* headings wrapped into one 360-degree range, leaves the annotation of
\* every reference light unchanged.
C12_RotationInvariant ==
    [][last'.op = "rotate_headings" =>
         \A ref \in Lights :
            annotate_trafficlight_in_group(ref)'
                = annotate_trafficlight_in_group(ref)
      ]_vars

\* a shift that wrapped the heading of a light around, in a group whose
\* lights fall in different buckets
C12_Witness ==
    /\ last.op = "rotate_headings"
    /\ \E l \in Lights : tlYaw[l] - last.arg < -180
    /\ annotate_trafficlight_in_group(1).ref # group_tl

----------------------------------------------------------------------------
(* SpecAnnotate: groups whose lights report headings at and around the    *)
(* bucket boundaries are annotated                                         *)

HeadingSamples == {-180, -20, 0, 45, 60, 160, 180, 270}

InitAnnotate ==
    /\ InitCache /\ InitPool /\ InitSimCache /\ InitSimPool
    /\ tlYaw \in [Lights -> HeadingSamples]
    /\ tlState = [l \in Lights |-> "Red"]
    /\ tlGreen = [l \in Lights |-> 1]
    /\ tlRed = [l \in Lights |-> 2]
    /\ tlYellow = [l \in Lights |-> 3]
    /\ reset_params = << >>
    /\ tlBefore = None
    /\ last = Returned("init", None, None)

NextAnnotate ==
    \E traffic_light \in Lights : AnnotateTrafficLightInGroup(traffic_light)

SpecAnnotate == InitAnnotate /\ [][NextAnnotate]_vars

\* C13: annotate_trafficlight_in_group puts every light of the group in
\* exactly one bucket, the one named by d = (target heading - reference
\* heading) wrapped into [0, 360): ref if d <= 45 or d > 340, left if
\* 240 < d < 300, opposite if 160 < d <= 240, right otherwise; and the
\* wrap of the code yields that d, a value of [0, 360), for every pair of
\* headings.
C13_BucketsByWrappedDifference ==
    (last.op = "annotate_trafficlight_in_group") =>
      \A target \in Lights :
        LET d == (tlYaw[target] - tlYaw[last.arg]) % 360
            expected == IF d <= 45 \/ d > 340 THEN "ref"
                        ELSE IF 240 < d /\ d < 300 THEN "left"
                        ELSE IF 160 < d /\ d <= 240 THEN "opposite"
                        ELSE "right"
            holding == { b \in DOMAIN last.ret :
                           \E i \in DOMAIN last.ret[b] : last.ret[b][i] = target }
        IN  /\ wrap_diff(tlYaw[last.arg], tlYaw[target]) \in 0..359
            /\ wrap_diff(tlYaw[last.arg], tlYaw[target]) = d
            /\ holding = {expected}

----------------------------------------------------------------------------
(* SpecBarrier: the frame barrier against the simulator's frame counter *)

NextBarrier ==
    \/ \E w \in Worlds : ~InBarrier /\ PoolSetWorld(w)
    \/ BatchTick
    \/ SyncPoll
    \/ SyncAssert
    \/ SimAdvance

SpecBarrier == Init /\ [][NextBarrier]_vars

\* C14: the barrier returns only when the reported frame equals the frame
\* the tick returned, and its assertion never fails, whatever frames the
\* simulator publishes between the tick, the read that ends the loop and
\* the read of the assertion.
C14_BarrierExact ==
    [][last'.op = "_sync" =>
         /\ last'.exc = "none"
         /\ simFrame' = last'.arg
      ]_vars

----------------------------------------------------------------------------
(* SpecSetup: setup_actor calls on a bound pool; a running retry loop     *)
(* keeps iterating                                                         *)

NextSetup ==
    \/ \E w \in {1} : ~InRetryLoop /\ PoolSetWorld(w)
    \/ \E model \in {"vehicle", "walker"}, x \in {0, 8} :
          SetupActorExact(model, Pose(x))
    \/ \E model \in {"vehicle", "walker"} : SetupActorRandom(model)
    \/ TrySpawnRandom

SpecSetup ==
    /\ Init
    /\ [][NextSetup]_vars
    /\ WF_vars(TrySpawnRandom)

\* C15: a setup_actor call that has entered its spawn attempts always
\* finishes, returning the spawned actor or raising the spawn-failure
\* error; with random_location too.
C15_SetupActorTerminates ==
    (last.op = "setup_actor.retry") ~>
        (/\ last.op = "setup_actor"
         /\ \/ last.exc = "none" /\ last.ret # None
            \/ last.exc = "RuntimeError")

----------------------------------------------------------------------------
(* SpecResponses: batches at a given spawn point, answered command by     *)
(* command with success or error                                           *)

NextResponses ==
    \/ PoolSetClient
    \/ \E w \in {1} : PoolSetWorld(w)
    \/ \E req \in { r \in BatchRequests :
                      /\ r.model # "unknown" /\ r.amount > 0
                      /\ r.spawn_point # None
                      /\ ~r.hero /\ ~r.autopilot } :
          RequestNewBatchActors(req)

SpecResponses == Init /\ [][NextResponses]_vars

\* C16: on a bound pool a batch whose commands were submitted completes
\* whatever the per-command responses of the two batches are, and returns
\* exactly the actors of the spawn commands that succeeded, in response
\* order, none of them a walker controller.
C16_PerCommandFailuresTolerated ==
    [][(/\ last'.op = "request_new_batch_actors"
        /\ pool_world # None /\ pool_client # None
        /\ Len(last'.arg.responses) > 0) =>
         LET succeeded == { i \in DOMAIN last'.arg.responses :
                              last'.arg.responses[i] }
             first == Cardinality(DOMAIN simActors)
         IN  /\ last'.exc = "none"
             /\ Len(last'.ret) = Cardinality(succeeded)
             /\ \A k \in DOMAIN last'.ret :
                  /\ last'.ret[k] = Handle(first + k)
                  /\ first + k \in DOMAIN simActors'
                  /\ simActors'[first + k].type_id \in {"vehicle", "walker"}
      ]_vars

\* a walker batch with a failed spawn, a spawn that succeeded and a failed
\* controller attach
C16_Witness ==
    /\ last.op = "request_new_batch_actors" /\ last.exc = "none"
    /\ last.arg.model = "walker"
    /\ last.arg.responses = << FALSE, TRUE >>
    /\ last.arg.controller_responses = << FALSE >>
    /\ Len(last.ret) = 1

----------------------------------------------------------------------------
(* SpecCursor: the spawn cursor under binds, batches with random           *)
(* locations, single requests, removals and cleanup                        *)

NextCursor ==
    \/ PoolSetClient
    \/ \E w \in {1} : PoolSetWorld(w)
    \/ \E req \in { r \in BatchRequests :
                      /\ r.model = "vehicle" /\ r.random_location
                      /\ ~r.autopilot /\ ~r.hero } :
          RequestNewBatchActors(req)
    \/ RequestNewActor("vehicle", Pose(0), "scenario", FALSE, FALSE, "car")
    \/ \E actor_id \in {1} : RemoveActorById(actor_id)
    \/ PoolCleanup

SpecCursor == Init /\ [][NextCursor]_vars

\* C17: while a world is bound to the pool the spawn cursor lies between 0
\* and the number of candidate spawn points, and no step other than a bind
\* (set_world with its generate_spawn_points, cleanup) lowers it.
C17_CursorBoundedMonotonic ==
    [][/\ pool_world' # None =>
            /\ spawn_points' # None
            /\ 0 <= spawn_index'
            /\ spawn_index' <= Len(spawn_points'.points)
       /\ last'.op \notin {"CarlaActorPool.set_world", "CarlaActorPool.cleanup"}
            => spawn_index' >= spawn_index
      ]_vars

\* a batch that asked for more vehicles than candidates were left and
\* stopped the cursor at the candidate count
C17_Witness ==
    /\ last.op = "request_new_batch_actors" /\ last.exc = "none"
    /\ pool_world # None
    /\ spawn_index = Len(spawn_points.points)
    /\ last.arg.amount > Len(last.arg.responses)
    /\ Len(last.ret) >= 1

----------------------------------------------------------------------------
(* SpecRemoval: actors enter the pool one by one and in batches and leave *)
(* it by identity, by surrounding and by cleanup                           *)

NextRemoval ==
    \/ PoolSetClient
    \/ \E w \in {1} : PoolSetWorld(w)
    \/ \E x \in {0, 8} :
          RequestNewActor("vehicle", Pose(x), "scenario", FALSE, FALSE, "car")
    \/ \E req \in { r \in BatchRequests :
                      /\ r.model = "vehicle" /\ r.amount > 0
                      /\ r.spawn_point # None
                      /\ ~r.hero /\ ~r.autopilot } :
          RequestNewBatchActors(req)
    \/ \E actor_id \in ActorIds : RemoveActorById(actor_id)
    \/ RemoveActorsInSurrounding(0, 8)
    \/ PoolCleanup

SpecRemoval == Init /\ [][NextRemoval]_vars

\* C18: no pool key ever maps to a None placeholder; remove_actor_by_id of
\* an identity that is not in the pool changes neither the pool nor the
\* simulator (no destroy); on a pooled identity it destroys that actor once
\* and removes its key, leaving the other entries as they were.
C18_RemovalLeavesNoPlaceholder ==
    [][/\ \A id \in DOMAIN carla_actor_pool' : carla_actor_pool'[id] # None
       /\ last'.op = "remove_actor_by_id" =>
            IF last'.arg \in DOMAIN carla_actor_pool
            THEN /\ DOMAIN carla_actor_pool'
                       = (DOMAIN carla_actor_pool) \ {last'.arg}
                 /\ \A id \in DOMAIN carla_actor_pool' :
                       carla_actor_pool'[id] = carla_actor_pool[id]
                 /\ simDestroyed'
                       = [simDestroyed EXCEPT ![last'.arg] = simDestroyed[last'.arg] + 1]
            ELSE /\ carla_actor_pool' = carla_actor_pool
                 /\ simDestroyed' = simDestroyed
      ]_vars

\* the second removal of an identity: it was destroyed once and is not
\* destroyed again, while another actor is still pooled
C18_Witness ==
    /\ last.op = "remove_actor_by_id"
    /\ last.arg \notin DOMAIN carla_actor_pool
    /\ last.arg \in DOMAIN simDestroyed
    /\ simDestroyed[last.arg] = 1
    /\ carla_actor_pool # EmptyMap

----------------------------------------------------------------------------
(* Claims about list registration *)

\* the positions of actors whose actor is registered before the call or
\* stands earlier in the list
C19_Duplicates(actors) ==
    { i \in DOMAIN actors :
        \/ actors[i] \in DOMAIN actor_velocity_map
        \/ \E j \in 1..(i - 1) : actors[j] = actors[i] }

\* C19: register_actors registers the actors in list order and stops at the
\* first one already registered or listed before, raising the duplicate
\* error: exactly the actors before it are added (with the initial
\* values), those after it are not, and the entries present before the
\* call keep their values.  Without a duplicate all are added and nothing
\* is raised.
C19_RegisterActorsStopsAtDuplicate ==
    [][last'.op = "register_actors" =>
         LET actors == last'.arg
             dups == C19_Duplicates(actors)
             stop == IF dups = {} THEN Len(actors) + 1
                     ELSE CHOOSE i \in dups : \A k \in dups : i <= k
             added == { actors[i] : i \in 1..(stop - 1) }
         IN  /\ (last'.exc = "none") <=> (dups = {})
             /\ dups # {} => last'.exc = "KeyError"
             /\ DOMAIN actor_velocity_map' = (DOMAIN actor_velocity_map) \cup added
             /\ DOMAIN actor_location_map' = (DOMAIN actor_location_map) \cup added
             /\ DOMAIN actor_transform_map' = (DOMAIN actor_transform_map) \cup added
             /\ \A a \in added :
                  /\ actor_velocity_map'[a] = 0
                  /\ actor_location_map'[a] = None
                  /\ actor_transform_map'[a] = None
             /\ \A a \in DOMAIN actor_velocity_map :
                  /\ actor_velocity_map'[a] = actor_velocity_map[a]
                  /\ actor_location_map'[a] = actor_location_map[a]
                  /\ actor_transform_map'[a] = actor_transform_map[a]
      ]_vars

\* a list whose first actor was added and whose second, registered and
\* ticked before the call, stopped the registration
C19_Witness ==
    /\ last.op = "register_actors" /\ last.exc = "KeyError"
    /\ Len(last.arg) = 2
    /\ last.arg[1] # last.arg[2]
    /\ {last.arg[1], last.arg[2]} \subseteq DOMAIN actor_velocity_map
    /\ actor_velocity_map[last.arg[1]] = 0
    /\ actor_velocity_map[last.arg[2]] > 0

----------------------------------------------------------------------------
(* SpecFrame: one registered actor is ticked while every other operation  *)
(* of the cache and of the pool runs around it                             *)

NextFrame ==
    \/ \E actor \in {1} : RegisterActor(actor)
    \/ OnCarlaTick
    \/ \E actor \in {1} : SimMove(actor)
    \/ \E actor \in {1} : GetVelocity(actor)
    \/ \E actor \in {1} : GetLocation(actor)
    \/ \E actor \in {1} : GetTransform(actor)
    \/ \E w \in {1} : SetWorld(w)
    \/ GetMap(None)
    \/ PrepareMap(group_tl)
    \/ \E traffic_light \in {1} : AnnotateTrafficLightInGroup(traffic_light)
    \/ UpdateLightStates(1, [k \in {"ego", "ref"} |-> "Green"], TRUE)
    \/ ResetLights
    \/ \E use_cached_location \in BOOLEAN :
          GetNextTrafficLight(1, use_cached_location, group_tl)
    \/ SetEgoVehicleRoute([route |-> 1])
    \/ GetEgoVehicleRoute
    \/ \E w \in {1} : PoolSetWorld(w)
    \/ RequestNewActor("vehicle", Pose(0), "scenario", FALSE, FALSE, "car")
    \/ \E actor_id \in {1} : RemoveActorById(actor_id)
    \/ RemoveActorsInSurrounding(0, 8)
    \/ DataProviderCleanup

SpecFrame == Init /\ [][NextFrame]_vars

\* C20: outside on_carla_tick no operation changes the cached velocity,
\* location or transform of an entry that exists before and after it; only
\* register_actor / register_actors add entries and only cleanup removes
\* them.
C20_CacheChangesOnlyInTick ==
    [][/\ last'.op # "on_carla_tick" =>
            \A a \in (DOMAIN actor_velocity_map) \cap (DOMAIN actor_velocity_map') :
               /\ actor_velocity_map'[a] = actor_velocity_map[a]
               /\ actor_location_map'[a] = actor_location_map[a]
               /\ actor_transform_map'[a] = actor_transform_map[a]
       /\ last'.op \notin {"register_actor", "register_actors"} =>
            /\ DOMAIN actor_velocity_map' \subseteq DOMAIN actor_velocity_map
            /\ DOMAIN actor_location_map' \subseteq DOMAIN actor_location_map
            /\ DOMAIN actor_transform_map' \subseteq DOMAIN actor_transform_map
       /\ last'.op # "CarlaDataProvider.cleanup" =>
            /\ DOMAIN actor_velocity_map \subseteq DOMAIN actor_velocity_map'
            /\ DOMAIN actor_location_map \subseteq DOMAIN actor_location_map'
            /\ DOMAIN actor_transform_map \subseteq DOMAIN actor_transform_map'
      ]_vars

\* the actor has moved since its last tick and its next traffic light was
\* asked for with its live location: the cache still holds the old one
C20_Witness ==
    /\ last.op = "get_next_traffic_light" /\ last.exc = "none"
    /\ ~last.arg.use_cached_location
    /\ 1 \in DOMAIN actor_location_map
    /\ actor_location_map[1] # None
    /\ actor_location_map[1] # SimLocation(1)

----------------------------------------------------------------------------
(* Claims about the phases of a batch *)

\* the positions in the calls of the last batch at which op was called
C21_At(op) == { k \in DOMAIN last.arg.calls : last.arg.calls[k].op = op }

\* C21: in a setup_batch_actors call that completes, the spawn batch is
\* submitted first, then the controller-attach batch (holding a command),
\* then the frame is advanced and the barrier passed, then each attached
\* controller is started, sent to its destination and given its speed: no
\* controller is started before the barrier and no controller-attach batch
\* is submitted after the frame advance.
C21_PhaseOrder ==
    (last.op = "request_new_batch_actors" /\ last.exc = "none") =>
      LET calls == last.arg.calls
          attach == { c \in C21_At("apply_batch_sync(controllers)") :
                        calls[c].n > 0 }
      IN  /\ \A s \in C21_At("apply_batch_sync(batch)") :
                \A c \in attach : s < c
          /\ \A c \in attach : \A t \in C21_At("world.tick") : c < t
          /\ \A t \in C21_At("world.tick") : \A b \in C21_At("_sync") : t < b
          /\ \A b \in C21_At("_sync") : \A w \in C21_At("start") : b < w
          /\ \A w \in C21_At("start") :
                /\ w + 2 \in DOMAIN calls
                /\ calls[w + 1] = Call("go_to_location", calls[w].n)
                /\ calls[w + 2] = Call("set_max_speed", calls[w].n)

----------------------------------------------------------------------------
(* SpecWalkers: pedestrian batches in a world whose blueprint library     *)
(* holds a walker blueprint without a speed attribute                      *)

NextWalkers ==
    \/ PoolSetClient
    \/ \E w \in {2} : PoolSetWorld(w)
    \/ \E w \in {2} : SetWorld(w)
    \/ \E req \in { r \in BatchRequests :
                      /\ r.model = "walker" /\ r.amount > 0
                      /\ ~r.hero /\ ~r.autopilot } :
          RequestNewBatchActors(req)

SpecWalkers == Init /\ [][NextWalkers]_vars

\* C22: a pedestrian request whose walker blueprint has no speed attribute
\* adds no spawn command: in every batch of walkers that is submitted the
\* number of spawn commands equals the number of walker speeds recorded.
C22_SpeedlessWalkerSkipped ==
    (/\ last.op = "request_new_batch_actors" /\ last.exc = "none"
     /\ last.arg.model = "walker") =>
        Len(last.arg.batch) = Len(last.arg.walker_speed)

----------------------------------------------------------------------------
(* SpecHero: vehicles are spawned at random locations around a hero that  *)
(* was requested at a spawn point and drives away                          *)

NextHero ==
    \/ PoolSetClient
    \/ \E w \in {1} : PoolSetWorld(w)
    \/ RequestNewActor("vehicle", Pose(0), "hero", FALSE, FALSE, "car")
    \/ \E req \in { r \in BatchRequests :
                      /\ r.model = "vehicle" /\ r.random_location
                      /\ ~r.autopilot } :
          RequestNewBatchActors(req)
    \/ \E actor_id \in {1} : SimDrive(actor_id, 20)

SpecHero == Init /\ [][NextHero]_vars

----------------------------------------------------------------------------
(* SpecRoles: vehicles and walkers are requested in batches at a spawn    *)
(* point, as hero, on autopilot or as plain scenario actors                *)

NextRoles ==
    \/ PoolSetClient
    \/ \E w \in {1} : PoolSetWorld(w)
    \/ \E req \in { r \in BatchRequests :
                      /\ r.model # "unknown" /\ r.amount > 0
                      /\ r.spawn_point # None } :
          RequestNewBatchActors(req)

SpecRoles == Init /\ [][NextRoles]_vars

\* C24: every spawn command a batch submits carries the role 'hero' if hero
\* is requested, else 'walker' for a walker model, else 'autopilot' if
\* autopilot is requested, else 'scenario'; so a walker requested as hero
\* is submitted with the role 'hero'.
C24_RolePrecedence ==
    (last.op = "request_new_batch_actors" /\ last.exc = "none") =>
      \A i \in DOMAIN last.arg.batch :
         last.arg.batch[i].role_name =
            IF last.arg.hero THEN "hero"
            ELSE IF last.arg.model = "walker" THEN "walker"
            ELSE IF last.arg.autopilot THEN "autopilot"
            ELSE "scenario"

----------------------------------------------------------------------------
(* Claims about the waypoint walk of get_next_traffic_light *)

\* C25: with a world bound, the lights scanned once each and the location
\* of the actor known, get_next_traffic_light returns without raising on
\* every lane: the walk stops at the first waypoint inside a junction or
\* where the lane has no successor.
C25_WalkNeverRaises ==
    (/\ last.op = "get_next_traffic_light"
     /\ dp_world # None
     /\ \A i, j \in DOMAIN last.arg.scan :
           i # j => last.arg.scan[i] # last.arg.scan[j]
     /\ IF last.arg.use_cached_location
        THEN /\ last.arg.actor \in DOMAIN actor_location_map
             /\ actor_location_map[last.arg.actor] # None
        ELSE TRUE) =>
        last.exc = "none"

----------------------------------------------------------------------------
(* SpecBind: the state cache and the pool are bound to either world, in   *)
(* any order, with cleanups and a random-location batch in between         *)

NextBind ==
    \/ \E w \in Worlds : SetWorld(w)
    \/ DataProviderCleanup
    \/ PoolSetClient
    \/ \E w \in Worlds : PoolSetWorld(w)
    \/ \E req \in { r \in BatchRequests :
                      /\ r.model = "vehicle" /\ r.random_location
                      /\ r.amount = 1 /\ ~r.hero /\ ~r.autopilot } :
          RequestNewBatchActors(req)
    \/ PoolCleanup

SpecBind == Init /\ [][NextBind]_vars

\* C26: after CarlaActorPool.set_world(w), whatever the pool and the state
\* cache held before, the candidate list is a permutation of the spawn
\* points of the map of w and the cursor is zero.
C26_BindTakesMapOfWorld ==
    [][last'.op = "CarlaActorPool.set_world" =>
         /\ spawn_points' # None
         /\ spawn_points'.points \in Shuffles(MapSpawnPoints(last'.arg))
         /\ spawn_index' = 0
      ]_vars

----------------------------------------------------------------------------
(* Claims about destruction on removal *)

\* C27: in every step of requests, removals by identity and by surrounding
\* and cleanups, exactly the actors whose keys leave the pool receive one
\* destroy call; so a pooled actor has never been destroyed and no actor is
\* destroyed twice; and every pool key is the identity of the handle stored
\* under it, an actor of the simulator.
C27_DestroyedOnceOnRemoval ==
    [][LET removed == (DOMAIN carla_actor_pool) \ (DOMAIN carla_actor_pool') IN
       /\ \A id \in DOMAIN simDestroyed :
             simDestroyed'[id]
                = simDestroyed[id] + (IF id \in removed THEN 1 ELSE 0)
       /\ \A id \in DOMAIN simDestroyed' :
             /\ id \in DOMAIN carla_actor_pool' => simDestroyed'[id] = 0
             /\ simDestroyed'[id] <= 1
       /\ \A k \in DOMAIN carla_actor_pool' :
             /\ carla_actor_pool'[k] = Handle(k)
             /\ k \in DOMAIN simActors'
      ]_vars

\* a cleanup that destroyed a pooled actor after another one had been
\* removed, and destroyed, by its identity
C27_Witness ==
    /\ last.op = "CarlaActorPool.cleanup"
    /\ last.arg # {}
    /\ \A id \in last.arg : id \in DOMAIN simDestroyed /\ simDestroyed[id] = 1
    /\ \E id \in (DOMAIN simDestroyed) \ last.arg : simDestroyed[id] = 1

====
